---- MODULE Spec2Model ----
(***************************************************************************)
(* Model of the perfume production bridge (main2.py): the                  *)
(* POST /api/production handler, the pump-vector wire format, the serial   *)
(* monitor with its completion handler, and the receipt directory; and of  *)
(* the queue-driven entry point (main.py with SerialBridge, ServerClient   *)
(* and the printer).                                                       *)
(*                                                                         *)
(* Volumes are fixed-point numbers counted in ticks of 1/10000 ml, so that *)
(* the two-decimal wire format and the three-decimal rounding of the total *)
(* both have digits to round away.  Where a decimal sits exactly half way  *)
(* between two roundings, Python rounds by the binary value of the float,  *)
(* which may lie on either side: that direction is an input (tieUp).       *)
(* Sums are exact; the rounding error of binary floating-point addition is *)
(* not modelled.                                                           *)
(*                                                                         *)
(* Ingredient names are romanised (TLA+ strings are ASCII): omija,         *)
(* gamnamu, eunhaengnamu, gyeongpodae, chasuguk, taebaeksanmaek,           *)
(* memilkkot, gamjakkot, anmokhaebyeon, sonamu.                            *)
(***************************************************************************)
EXTENDS Integers, Sequences, FiniteSets, TLC

\* ------------------------------------------------------------------------
\* Fixed-point volumes and text helpers

TicksPerMl == 10 * 1000

Ml(whole, frac4) == whole * TicksPerMl + frac4

Digit(d) == SubSeq("0123456789", d + 1, d + 1)

RECURSIVE Dec(_)
\* The decimal digits of a natural number, as Python's format renders them.
Dec(n) == IF n < 10 THEN Digit(n) ELSE Dec(n \div 10) \o Digit(n % 10)

\* x rounded to a multiple of q, in units of q; a tie goes up iff tieUp.
RoundTo(x, q, tieUp) ==
    LET f == x \div q
        r == x % q
    IN  IF 2 * r < q THEN f
        ELSE IF 2 * r > q THEN f + 1
        ELSE IF tieUp THEN f + 1 ELSE f

RECURSIVE RStrip(_, _)
\* str.rstrip(c) for a one-character c.
RStrip(s, c) ==
    IF Len(s) = 0 THEN s
    ELSE IF SubSeq(s, Len(s), Len(s)) = c THEN RStrip(SubSeq(s, 1, Len(s) - 1), c)
    ELSE s

\* c in s, for a one-character c.
Contains(s, c) == \E i \in 1..Len(s) : SubSeq(s, i, i) = c

RECURSIVE Replace(_, _)
\* str.replace(c, "") for a one-character c.
Replace(s, c) ==
    IF Len(s) = 0 THEN s
    ELSE IF Head(s) = c THEN Replace(Tail(s), c)
    ELSE Head(s) \o Replace(Tail(s), c)

\* f"{x:.1f}" of a volume that is a whole number of ml.
FormatWhole(x) == Dec(x \div TicksPerMl) \o ".0"

\* f"{x:.2f}" of a non-negative volume.
Format2f(x, tieUp) ==
    LET h == RoundTo(x, TicksPerMl \div 100, tieUp)
    IN  Dec(h \div 100) \o "." \o Digit((h \div 10) % 10) \o Digit(h % 10)

\* ------------------------------------------------------------------------
\* Program constants

KEEP_IMAGES == 10

PUMP_MAP ==
    [n \in {"omija", "gamnamu", "eunhaengnamu", "gyeongpodae", "chasuguk",
            "taebaeksanmaek", "memilkkot", "gamjakkot", "anmokhaebyeon", "sonamu"} |->
        CASE n = "omija" -> 0
          [] n = "gamnamu" -> 1
          [] n = "eunhaengnamu" -> 2
          [] n = "gyeongpodae" -> 3
          [] n = "chasuguk" -> 4
          [] n = "taebaeksanmaek" -> 5
          [] n = "memilkkot" -> 6
          [] n = "gamjakkot" -> 7
          [] n = "anmokhaebyeon" -> 8
          [] n = "sonamu" -> 9]

NAME_SET == DOMAIN PUMP_MAP

NumPumps == 10

ALLOWED_MIN_ML == 14 * TicksPerMl

ALLOWED_MAX_ML == 151 * (TicksPerMl \div 10)

MIN_ING == 1

MAX_ING == 7

\* ------------------------------------------------------------------------
\* Wire format of one pump volume (_fmt, for one element of the list)

_fmt(x, tieUp) ==
    IF x % TicksPerMl = 0 THEN FormatWhole(x)
    ELSE LET s == RStrip(Format2f(x, tieUp), "0")
         IN  IF Contains(s, ".") THEN s ELSE s \o ".0"

\* ------------------------------------------------------------------------
\* Values

\* None, for the string-valued globals.
NONE == "<None>"

\* bool(s) of a string or None.
Truthy(s) == s # NONE /\ s # ""

\* A pathlib.Path; NoPath stands for None.
Path(dir, stem, suffix) == [dir |-> dir, stem |-> stem, suffix |-> suffix]

NoPath == Path("", "", "")

\* One item of the request's recipe dict, in insertion order; num is FALSE
\* for a value float() cannot convert.
Entry(k, ml) == [k |-> k, num |-> TRUE, ml |-> ml]

BadEntry(k) == [k |-> k, num |-> FALSE, ml |-> 0]

Keys(recipe) == [i \in 1..Len(recipe) |-> recipe[i].k]

ZeroPumps == [i \in 0..(NumPumps - 1) |-> 0]

RECURSIVE SumPumps(_, _)
SumPumps(pumps, i) == IF i < 0 THEN 0 ELSE pumps[i] + SumPumps(pumps, i - 1)

\* The JSON body of a response; error is the rejection's class ("" on
\* success), the other fields its details.
Response(status, error) ==
    [status |-> status, error |-> error, who |-> "", unknown_ingredients |-> <<>>,
     count |-> 0, total_ml |-> 0]

NoResponse == Response(0, "")

\* ------------------------------------------------------------------------
\* production(): the validation rules, in the order of the code

\* Rule 0: the recipe holds no item.
IsEmptyRecipe(recipe) == Len(recipe) = 0

\* Unknowns stopping at the first such key.
FirstUnknown(recipe) ==
    LET all == SelectSeq(Keys(recipe), LAMBDA k : k \notin DOMAIN PUMP_MAP)
    IN  IF all = <<>> THEN <<>> ELSE <<Head(all)>>

\* Rule 1: the keys that are no ingredient of PUMP_MAP, in recipe order.
Unknowns(recipe) == SelectSeq(Keys(recipe), LAMBDA k : k \notin DOMAIN PUMP_MAP)

\* Rule 2: the number of items is within MIN_ING..MAX_ING.
CountInRange(recipe) == MIN_ING <= Len(recipe) /\ Len(recipe) <= MAX_ING

RECURSIVE Accumulate(_, _, _, _)
\* Rule 3: the loop over the items from item i on, with the pumps and the
\* total so far; it returns at the first item that is no number or negative.
Accumulate(recipe, i, pumps, total) ==
    IF i > Len(recipe)
    THEN [error |-> "", who |-> "", pumps |-> pumps, total |-> total]
    ELSE LET e == recipe[i] IN
         IF ~e.num
         THEN [error |-> "NotANumber", who |-> e.k, pumps |-> pumps, total |-> total]
         ELSE IF e.ml < 0
         THEN [error |-> "Negative", who |-> e.k, pumps |-> pumps, total |-> total]
         ELSE Accumulate(recipe, i + 1,
                         [pumps EXCEPT ![PUMP_MAP[e.k]] = @ + e.ml], total + e.ml)

\* TotalInRange with the upper end excluded.
TotalBelowMax(total) == ALLOWED_MIN_ML <= total /\ total < ALLOWED_MAX_ML

\* Rule 4: the total is within ALLOWED_MIN_ML..ALLOWED_MAX_ML.
TotalInRange(total) == ALLOWED_MIN_ML <= total /\ total <= ALLOWED_MAX_ML

\* round(total, 3), in thousandths of a ml.
Round3(total, tieUp) == RoundTo(total, TicksPerMl \div 1000, tieUp)

\* Rejection with the count checked before the names.
RejectionCountFirst(recipe, tieUp) ==
    IF IsEmptyRecipe(recipe) THEN Response(400, "EmptyRecipe")
    ELSE IF ~CountInRange(recipe)
    THEN [Response(400, "IngredientCountOutOfRange") EXCEPT !.count = Len(recipe)]
    ELSE IF Unknowns(recipe) # <<>>
    THEN [Response(400, "UnknownIngredient") EXCEPT
              !.unknown_ingredients = Unknowns(recipe)]
    ELSE LET acc == Accumulate(recipe, 1, ZeroPumps, 0) IN
         IF acc.error # ""
         THEN [Response(400, "InvalidAmount") EXCEPT !.who = acc.who]
         ELSE IF ~TotalInRange(acc.total)
         THEN [Response(400, "TotalVolumeOutOfRange") EXCEPT
                   !.total_ml = Round3(acc.total, tieUp)]
         ELSE NoResponse

\* The rejection production() returns for the recipe, or NoResponse when
\* every rule passes.
Rejection(recipe, tieUp) ==
    IF IsEmptyRecipe(recipe) THEN Response(400, "EmptyRecipe")
    ELSE IF Unknowns(recipe) # <<>>
    THEN [Response(400, "UnknownIngredient") EXCEPT
              !.unknown_ingredients = Unknowns(recipe)]
    ELSE IF ~CountInRange(recipe)
    THEN [Response(400, "IngredientCountOutOfRange") EXCEPT !.count = Len(recipe)]
    ELSE LET acc == Accumulate(recipe, 1, ZeroPumps, 0) IN
         IF acc.error # ""
         THEN [Response(400, "InvalidAmount") EXCEPT !.who = acc.who]
         ELSE IF ~TotalInRange(acc.total)
         THEN [Response(400, "TotalVolumeOutOfRange") EXCEPT
                   !.total_ml = Round3(acc.total, tieUp)]
         ELSE NoResponse

\* ------------------------------------------------------------------------
\* Template files

\* ORIG_DIR / f"{clean}.png"
OrigPath(clean) == Path("original", clean, ".png")

\* CUSTOM_DIR / f"{n}.jpg" and CUSTOM_DIR / f"{n}.png"
CustomPath(n, suffix) == Path("custom", Dec(n), suffix)

_count_used_ingredients(recipe) ==
    IF Len(recipe) < 1 THEN 1 ELSE IF Len(recipe) > 7 THEN 7 ELSE Len(recipe)

\* select_template, on a disk holding the files `disk`.
select_template(name, recipe, disk) ==
    LET clean == Replace(name, " ") IN
    IF name \in NAME_SET
    THEN IF OrigPath(clean) \in disk THEN OrigPath(clean) ELSE NoPath
    ELSE LET n == _count_used_ingredients(recipe) IN
         IF CustomPath(n, ".jpg") \in disk THEN CustomPath(n, ".jpg")
         ELSE IF CustomPath(n, ".png") \in disk THEN CustomPath(n, ".png")
         ELSE NoPath

\* ------------------------------------------------------------------------
\* State

VARIABLES
    \* Production State: the module globals production() assigns
    current_template, current_callback_url, current_production_id,
    current_perfume_name, current_is_custom, current_recipe,
    \* the serial port: "None" (open failed at import), "closed" or "open"
    ser,
    \* the lines written to the serial port, oldest first
    serial_out,
    \* the template files on disk
    disk,
    \* the request thread: its position in production(), its request, its
    \* locals pumps and total, and the response it returned last
    http_pc, http_req, http_pumps, http_total, http_resp,
    \* history: the orders that passed validation, oldest first, and the
    \* number of requests received
    validated, http_count,
    \* the serial monitor thread: its position in serial_worker
    mon_pc,
    \* what the completion handler read and did in its latest invocation,
    \* and the number of its invocations
    done, done_count,
    \* the line it read last, stripped, and the number of lines it has read
    line, line_count,
    \* the production ids a production-done callback was posted for
    notified,
    \* the clock (seconds), the last_qr_sent table and the QR lookups posted
    now, last_qr_sent, qr_posts,
    \* the receipt directory TIME_DIR: its files, oldest first, and the
    \* number of receipts composed
    time_dir, composed,
    \* the wire formatter on its own: its argument and its result
    fmt_in, fmt_out,
    \* the recipe table on its own: the recipe and the rows drawn, top first
    sort_in, sort_out,
    \* the title on its own: the arguments of draw_centered_fit_text and
    \* the texts it drew, each with its font size
    fit_in, fit_out

prod_vars == <<current_template, current_callback_url, current_production_id,
               current_perfume_name, current_is_custom, current_recipe>>

http_vars == <<http_pc, http_req, http_pumps, http_total, http_resp, validated,
               http_count>>

mon_vars == <<mon_pc, done, done_count, line, line_count, notified>>

qr_vars == <<now, last_qr_sent, qr_posts>>

dir_vars == <<time_dir, composed>>

fmt_vars == <<fmt_in, fmt_out>>

draw_vars == <<sort_in, sort_out, fit_in, fit_out>>

\* The functions run on their own.
pure_vars == <<fmt_vars, draw_vars>>

\* The queue-driven entry point (main.py): the three queues, the position
\* of main() in its loop with its locals qr, recipe and ack, the session id
\* of the ServerClient, what SerialBridge has written and what the printer
\* has printed.  cycles counts the rounds of the loop begun, and heard
\* records each line SerialBridge.run has read with the moment it was read:
\* the rounds begun, the lines written, and whether main() was waiting for
\* a scan.
VARIABLES QR_Q, RECIPE_Q, ACK_Q, main_pc, main_qr, main_recipe, main_ack, session_id,
          writer_out, printed, cycles, heard

queue_vars == <<QR_Q, RECIPE_Q, ACK_Q, main_pc, main_qr, main_recipe, main_ack, session_id,
                writer_out, printed, cycles, heard>>

\* What production() neither reads nor writes.
beyond_http == <<mon_vars, qr_vars, dir_vars, pure_vars, queue_vars>>

vars == <<prod_vars, ser, serial_out, disk, http_vars, mon_vars, qr_vars, dir_vars,
          pure_vars, queue_vars>>

\* pumps before the loop of production() has run: no list yet.
NoPumps == [i \in {} |-> 0]

NoRequest == [name |-> "", recipe |-> <<>>, callbackUrl |-> "", productionId |-> ""]

\* ------------------------------------------------------------------------
\* production(): the handler of POST /api/production, one action per step
\* that another thread can observe

\* production_validate storing the production id before the checks.
production_validate_after_store ==
    /\ http_pc = "validate"
    /\ current_production_id' = http_req.productionId
    /\ \E tieUp \in BOOLEAN :
        LET rej == Rejection(http_req.recipe, tieUp)
            acc == Accumulate(http_req.recipe, 1, ZeroPumps, 0)
        IN  /\ http_pumps' = IF rej = NoResponse THEN acc.pumps ELSE NoPumps
            /\ http_total' = IF rej = NoResponse THEN acc.total ELSE 0
            /\ IF rej = NoResponse
               THEN /\ http_pc' = "set_template"
                    /\ http_resp' = NoResponse
                    /\ validated' = Append(validated, http_req)
               ELSE /\ http_pc' = "idle"
                    /\ http_resp' = rej
                    /\ validated' = validated
    /\ UNCHANGED <<current_template, current_callback_url, current_perfume_name,
                   current_is_custom, current_recipe, ser, serial_out, disk, http_req,
                   http_count, beyond_http>>

\* Lines 513-570: the checks, on the thread's locals alone.
production_validate ==
    /\ http_pc = "validate"
    /\ \E tieUp \in BOOLEAN :
        LET rej == Rejection(http_req.recipe, tieUp)
            ran == ~IsEmptyRecipe(http_req.recipe) /\ Unknowns(http_req.recipe) = <<>>
                   /\ CountInRange(http_req.recipe)
            acc == Accumulate(http_req.recipe, 1, ZeroPumps, 0)
        IN  /\ http_pumps' = IF ran THEN acc.pumps ELSE NoPumps
            /\ http_total' = IF ran THEN acc.total ELSE 0
            /\ IF rej = NoResponse
               THEN /\ http_pc' = "set_template"
                    /\ http_resp' = NoResponse
                    /\ validated' = Append(validated, http_req)
               ELSE /\ http_pc' = "idle"
                    /\ http_resp' = rej
                    /\ validated' = validated
    /\ UNCHANGED <<prod_vars, ser, serial_out, disk, http_req, http_count, beyond_http>>

\* Line 574 left out: the template stays that of the order before.
production_skip_template ==
    /\ http_pc = "set_template"
    /\ current_template' = current_template
    /\ http_pc' = "set_callback_url"
    /\ UNCHANGED <<current_callback_url, current_production_id, current_perfume_name,
                   current_is_custom, current_recipe, ser, serial_out, disk,
                   http_req, http_pumps, http_total, http_resp, validated, http_count, beyond_http>>

\* Line 574
production_set_template ==
    /\ http_pc = "set_template"
    /\ current_template' = select_template(http_req.name, http_req.recipe, disk)
    /\ http_pc' = "set_callback_url"
    /\ UNCHANGED <<current_callback_url, current_production_id, current_perfume_name,
                   current_is_custom, current_recipe, ser, serial_out, disk,
                   http_req, http_pumps, http_total, http_resp, validated, http_count, beyond_http>>

\* Line 575
production_set_callback_url ==
    /\ http_pc = "set_callback_url"
    /\ current_callback_url' = http_req.callbackUrl
    /\ http_pc' = "set_production_id"
    /\ UNCHANGED <<current_template, current_production_id, current_perfume_name,
                   current_is_custom, current_recipe, ser, serial_out, disk,
                   http_req, http_pumps, http_total, http_resp, validated, http_count, beyond_http>>

\* production_set_production_id keeping an id that is already set.
production_keep_production_id ==
    /\ http_pc = "set_production_id"
    /\ current_production_id' =
           IF current_production_id = NONE THEN http_req.productionId
           ELSE current_production_id
    /\ http_pc' = "set_perfume_name"
    /\ UNCHANGED <<current_template, current_callback_url, current_perfume_name,
                   current_is_custom, current_recipe, ser, serial_out, disk,
                   http_req, http_pumps, http_total, http_resp, validated, http_count, beyond_http>>

\* Line 576
production_set_production_id ==
    /\ http_pc = "set_production_id"
    /\ current_production_id' = http_req.productionId
    /\ http_pc' = "set_perfume_name"
    /\ UNCHANGED <<current_template, current_callback_url, current_perfume_name,
                   current_is_custom, current_recipe, ser, serial_out, disk,
                   http_req, http_pumps, http_total, http_resp, validated, http_count, beyond_http>>

\* Line 577
production_set_perfume_name ==
    /\ http_pc = "set_perfume_name"
    /\ current_perfume_name' = http_req.name
    /\ http_pc' = "set_is_custom"
    /\ UNCHANGED <<current_template, current_callback_url, current_production_id,
                   current_is_custom, current_recipe, ser, serial_out, disk,
                   http_req, http_pumps, http_total, http_resp, validated, http_count, beyond_http>>

\* Line 581
production_set_is_custom ==
    /\ http_pc = "set_is_custom"
    /\ current_is_custom' = (http_req.name \notin NAME_SET)
    /\ http_pc' = "set_recipe"
    /\ UNCHANGED <<current_template, current_callback_url, current_production_id,
                   current_perfume_name, current_recipe, ser, serial_out, disk,
                   http_req, http_pumps, http_total, http_resp, validated, http_count, beyond_http>>

\* Line 582
production_set_recipe ==
    /\ http_pc = "set_recipe"
    /\ current_recipe' = http_req.recipe
    /\ http_pc' = "send"
    /\ UNCHANGED <<current_template, current_callback_url, current_production_id,
                   current_perfume_name, current_is_custom, ser, serial_out, disk,
                   http_req, http_pumps, http_total, http_resp, validated, http_count, beyond_http>>

RECURSIVE JoinFrom(_, _, _)
\* ",".join of the fields of the pumps from index i on.
JoinFrom(pumps, i, tieUp) ==
    IF i = NumPumps - 1 THEN _fmt(pumps[i], tieUp)
    ELSE _fmt(pumps[i], tieUp) \o "," \o JoinFrom(pumps, i + 1, tieUp)

\* WireLine without the newline.
WireLineBare(pumps, tieUp) == JoinFrom(pumps, 0, tieUp)

\* Lines 585-586: payload = ",".join(_fmt(pumps)); line = payload + "\n"
WireLine(pumps, tieUp) == JoinFrom(pumps, 0, tieUp) \o "\n"

\* production_send putting Production State back to its initial values when
\* the write raises.
production_send_rolled_back ==
    /\ http_pc = "send"
    /\ http_pc' = "idle"
    /\ \E tieUp \in BOOLEAN, raises \in BOOLEAN :
        IF ser # "open"
        THEN /\ http_resp' = Response(200, "")
             /\ serial_out' = serial_out
             /\ UNCHANGED prod_vars
        ELSE IF raises
        THEN /\ http_resp' = Response(500, "SerialWriteFailed")
             /\ serial_out' = serial_out
             /\ current_template' = NoPath
             /\ current_callback_url' = NONE
             /\ current_production_id' = NONE
             /\ current_perfume_name' = NONE
             /\ current_is_custom' = FALSE
             /\ current_recipe' = <<>>
        ELSE /\ http_resp' = Response(200, "")
             /\ serial_out' = Append(serial_out, WireLine(http_pumps, tieUp))
             /\ UNCHANGED prod_vars
    /\ UNCHANGED <<ser, disk, http_req, http_pumps, http_total,
                   validated, http_count, beyond_http>>

\* Lines 593-614: the write to the serial port and the response.  ser.write
\* either returns or raises.
production_send ==
    /\ http_pc = "send"
    /\ http_pc' = "idle"
    /\ \E tieUp \in BOOLEAN, raises \in BOOLEAN :
        IF ser # "open"
        THEN /\ http_resp' = Response(200, "")
             /\ serial_out' = serial_out
        ELSE IF raises
        THEN /\ http_resp' = Response(500, "SerialWriteFailed")
             /\ serial_out' = serial_out
        ELSE /\ http_resp' = Response(200, "")
             /\ serial_out' = Append(serial_out, WireLine(http_pumps, tieUp))
    /\ UNCHANGED <<prod_vars, ser, disk, http_req, http_pumps, http_total,
                   validated, http_count, beyond_http>>

production ==
    \/ production_validate
    \/ production_set_template
    \/ production_set_callback_url
    \/ production_set_production_id
    \/ production_set_perfume_name
    \/ production_set_is_custom
    \/ production_set_recipe
    \/ production_send

\* ------------------------------------------------------------------------
\* The receipt directory

\* A receipt image saved as the n-th composition: receipt_<uuid><suffix>.
\* Each save is later than the one before it, so mtime is its number.
ReceiptFile(n, suffix) == [id |-> n, suffix |-> suffix, mtime |-> n]

\* folder.glob("receipt_*.png")
GlobReceiptPng(folder) == {f \in folder : f.suffix = ".png"}

\* _prune_old(folder, keep): of the files the glob matches, sorted by
\* mtime, all but the last `keep` are unlinked.
_prune_old(folder, keep) ==
    LET matched == GlobReceiptPng(folder)
        newer(f) == Cardinality({g \in matched : g.mtime > f.mtime})
    IN  {f \in folder : f \notin matched \/ newer(f) < keep}

\* Lines 171-173 of overlay_now: save receipt_<uuid>.jpg, then prune.
overlay_now_save(folder, n) ==
    _prune_old(folder \cup {ReceiptFile(n, ".jpg")}, KEEP_IMAGES)

\* Lines 334-336 of compose_custom_receipt: save receipt_<uuid>.png, then
\* prune.
compose_custom_receipt_save(folder, n) ==
    _prune_old(folder \cup {ReceiptFile(n, ".png")}, KEEP_IMAGES)

select_custom_template_by_count(n, files) ==
    IF CustomPath(n, ".jpg") \in files THEN CustomPath(n, ".jpg")
    ELSE IF CustomPath(n, ".png") \in files THEN CustomPath(n, ".png")
    ELSE NoPath

\* Line 294 of compose_custom_receipt: n = max(1, min(7, len(recipe)))
ClampCount(len) == IF len > 7 THEN 7 ELSE IF len < 1 THEN 1 ELSE len

\* ------------------------------------------------------------------------
\* The serial monitor: serial_worker, handle_qr, serial_done_worker

PHYSICAL_ID == "MPQ03KH/A"

\* baerongnamu, gamnamu, eunhaengnamu, gyeongpodae, chasuguk,
\* taebaeksanmaek, bamjangmi, beotkkot, anmokhaebyeon, sonamu
VALID_QR ==
    {"baerongnamu", "gamnamu", "eunhaengnamu", "gyeongpodae", "chasuguk",
     "taebaeksanmaek", "bamjangmi", "beotkkot", "anmokhaebyeon", "sonamu"}

QR_RET_SEC == 3

\* QR_PAT.match: one or more characters, each a Hangul letter (here its
\* romanisation), a word character or a space.
QR_PAT_match(s) ==
    /\ Len(s) > 0
    /\ \A i \in 1..Len(s) :
        Contains("abcdefghijklmnopqrstuvwxyzABCDEFGHIJKLMNOPQRSTUVWXYZ0123456789_ ",
                 SubSeq(s, i, i))

IsSpace(c) == c = " " \/ c = "\n" \/ c = "\r" \/ c = "\t"

RECURSIVE LStrip(_)
LStrip(s) == IF Len(s) > 0 /\ IsSpace(Head(s)) THEN LStrip(Tail(s)) ELSE s

RECURSIVE RStripSpace(_)
RStripSpace(s) ==
    IF Len(s) > 0 /\ IsSpace(SubSeq(s, Len(s), Len(s)))
    THEN RStripSpace(SubSeq(s, 1, Len(s) - 1))
    ELSE s

\* str.strip()
Strip(s) == RStripSpace(LStrip(s))

\* looks_like_qr without the reserved tokens.
looks_like_qr_unreserved(text) ==
    /\ text # ""
    /\ SubSeq(text, 1, 1) \notin {"[", ">", "#"}

\* looks_like_qr(line); the marker U+25B6 is written ">" here.
looks_like_qr(text) ==
    /\ text # ""
    /\ text \notin {"r", "#DONE"}
    /\ SubSeq(text, 1, 1) \notin {"[", ">", "#"}

\* last_qr_sent.get(qr, 0)
LastSent(table, qr) == IF qr \in DOMAIN table THEN table[qr] ELSE 0

\* What the handler has read and done; "-" marks a step not reached.
NoDone ==
    [fragrance_name |-> NONE, notify |-> "-",
     cb_url |-> NONE, cb_pid |-> NONE, cb_status |-> "-", callback |-> "-",
     is_custom |-> FALSE, recipe |-> <<>>, name |-> NONE, template |-> NoPath,
     print |-> "-"]

\* notify_cartridge_used catching no exception.
notify_cartridge_used_uncaught(outcome) ==
    CASE outcome = "200" -> "True"
      [] outcome = "status_error" -> "False"
      [] outcome = "raises" -> "raised"

\* How notify_cartridge_used ends for each outcome of httpx.patch: every
\* exception is caught in it.
notify_cartridge_used(outcome) ==
    CASE outcome = "200" -> "True"
      [] outcome = "status_error" -> "False"
      [] outcome = "raises" -> "False"

\* Lines 403-407: the status in the payload handle_production_done posts.
ProductionDoneStatus(success) == IF success THEN "COMPLETED" ELSE "FAILED"

\* How handle_production_done ends for each outcome of httpx.post: only
\* httpx.RequestError is caught in it.
handle_production_done(outcome) ==
    CASE outcome = "ok" -> "returned"
      [] outcome = "status_error" -> "returned"
      [] outcome = "request_error" -> "returned"
      [] outcome = "raises" -> "raised"

\* handle_qr_sent counting every response, whatever its status.
handle_qr_sent_any_status(outcome) == outcome \in {"ok", "status_error"}

\* Line 351: the response counts as sent.
handle_qr_sent(outcome) == outcome = "ok"

\* Lines 423-434: one round of the loop of serial_worker in which
\* ser.readline() returns `raw`, up to the call of handle_qr or of
\* serial_done_worker.  An empty read (the 0.2 s timeout) starts the next
\* round.
serial_worker_read(raw) ==
    /\ mon_pc = "readline"
    /\ IF raw = ""
       THEN UNCHANGED mon_vars
       ELSE LET stripped == Strip(raw) IN
            /\ line' = stripped
            /\ line_count' = line_count + 1
            /\ notified' = notified
            /\ IF looks_like_qr(stripped)
               THEN /\ mon_pc' = "handle_qr"
                    /\ UNCHANGED <<done, done_count>>
               ELSE IF stripped = "#DONE"
               THEN /\ mon_pc' = "done_notify"
                    /\ done' = NoDone
                    /\ done_count' = done_count + 1
               ELSE /\ mon_pc' = "readline"
                    /\ UNCHANGED <<done, done_count>>
    /\ UNCHANGED <<prod_vars, ser, serial_out, disk, http_vars, qr_vars, dir_vars,
                   pure_vars, queue_vars>>

\* ser.readline() raises (the device is unplugged): line 435 catches it.
serial_worker_readline_raises ==
    /\ mon_pc = "readline"
    /\ mon_pc' = "except"
    /\ UNCHANGED <<prod_vars, ser, serial_out, disk, http_vars, done, done_count, line,
                   line_count, notified, qr_vars, dir_vars, pure_vars, queue_vars>>

\* The loop of serial_worker without its except clause: the thread ends.
serial_worker_uncaught == "terminated"

\* Where an exception that reaches the loop of serial_worker leaves the
\* thread: lines 435-437 catch it, sleep and start the next round.
serial_worker_caught == "readline"

\* Lines 435-437
serial_worker_except ==
    /\ mon_pc = "except"
    /\ mon_pc' = serial_worker_caught
    /\ UNCHANGED <<prod_vars, ser, serial_out, disk, http_vars, done, done_count, line,
                   line_count, notified, qr_vars, dir_vars, pure_vars, queue_vars>>

\* Lines 344-357: handle_qr(line).  The lookup is posted with one of the
\* outcomes of httpx.post: a status below 400, a status from 400 on, an
\* httpx.RequestError, or another exception, which leaves handle_qr.
handle_qr ==
    /\ mon_pc = "handle_qr"
    /\ IF line \notin VALID_QR \/ ~QR_PAT_match(line)
       THEN /\ mon_pc' = "readline"
            /\ UNCHANGED <<last_qr_sent, qr_posts>>
       ELSE IF now - LastSent(last_qr_sent, line) < QR_RET_SEC
       THEN /\ mon_pc' = "readline"
            /\ UNCHANGED <<last_qr_sent, qr_posts>>
       ELSE \E outcome \in {"ok", "status_error", "request_error", "raises"} :
            /\ qr_posts' = Append(qr_posts, [qr |-> line, at |-> now, outcome |-> outcome])
            /\ last_qr_sent' =
                   IF handle_qr_sent(outcome)
                   THEN [q \in DOMAIN last_qr_sent \cup {line} |->
                            IF q = line THEN now ELSE last_qr_sent[q]]
                   ELSE last_qr_sent
            /\ mon_pc' = IF outcome = "raises" THEN "except" ELSE "readline"
    /\ UNCHANGED <<prod_vars, ser, serial_out, disk, http_vars, done, done_count, line,
                   line_count, notified, now, dir_vars, pure_vars, queue_vars>>

\* A second passes on the clock time.time() reads.
clock_tick ==
    /\ now' = now + 1
    /\ UNCHANGED <<prod_vars, ser, serial_out, disk, http_vars, mon_vars, last_qr_sent,
                   qr_posts, dir_vars, pure_vars, queue_vars>>

\* Lines 444-450: the cartridge notification.  An exception leaving it
\* would pass the callback and go to the finally block.
serial_done_notify ==
    /\ mon_pc = "done_notify"
    /\ LET fragrance_name ==
               IF current_template # NoPath THEN current_template.stem ELSE NONE
       IN  IF Truthy(fragrance_name)
           THEN \E outcome \in {"200", "status_error", "raises"} :
                   /\ done' = [done EXCEPT !.fragrance_name = fragrance_name,
                                           !.notify = outcome]
                   /\ mon_pc' = IF notify_cartridge_used(outcome) = "raised"
                                THEN "done_print" ELSE "done_callback"
           ELSE /\ done' = [done EXCEPT !.notify = "skipped"]
                /\ mon_pc' = "done_callback"
    /\ UNCHANGED <<prod_vars, ser, serial_out, disk, http_vars, done_count, line, line_count,
                   notified, qr_vars,
                   dir_vars, pure_vars, queue_vars>>

\* Lines 453-459: the production-done callback, called with success=True.
\* It is the last statement of the try block: returning or raising, the
\* finally block is next.
serial_done_callback ==
    /\ mon_pc = "done_callback"
    /\ IF Truthy(current_callback_url) /\ Truthy(current_production_id)
       THEN \E outcome \in {"ok", "status_error", "request_error", "raises"} :
               /\ done' = [done EXCEPT !.cb_url = current_callback_url,
                                       !.cb_pid = current_production_id,
                                       !.cb_status = ProductionDoneStatus(TRUE),
                                       !.callback = outcome]
               /\ notified' = notified \cup {current_production_id}
               /\ mon_pc' = IF handle_production_done(outcome) = "raised"
                            THEN "done_print" ELSE "done_print"
       ELSE /\ done' = [done EXCEPT !.cb_url = current_callback_url,
                                    !.cb_pid = current_production_id,
                                    !.callback = "skipped"]
            /\ notified' = notified
            /\ mon_pc' = "done_print"
    /\ UNCHANGED <<prod_vars, ser, serial_out, disk, http_vars, done_count, line, line_count,
                   qr_vars,
                   dir_vars, pure_vars, queue_vars>>

\* print_receipt(template) up to its loop (lines 181-185): the overlay
\* raises, or the receipt is saved and the print loop is entered.
\* It gives <<print, mon_pc', time_dir', composed'>>.
print_receipt_begin(template, overlayRaises) ==
    IF overlayRaises
    THEN <<"overlay_failed", "readline", time_dir, composed>>
    ELSE <<"template_pending", "print_retry",
           overlay_now_save(time_dir, composed + 1), composed + 1>>

\* Lines 461-486: the finally block.
serial_done_print ==
    /\ mon_pc = "done_print"
    /\ \E composeRaises \in BOOLEAN, usbRaises \in BOOLEAN, overlayRaises \in BOOLEAN :
        LET read == [done EXCEPT !.is_custom = current_is_custom,
                                 !.recipe = current_recipe,
                                 !.name = current_perfume_name,
                                 !.template = current_template]
            tpl == select_custom_template_by_count(ClampCount(Len(current_recipe)), disk)
            plain == IF current_template # NoPath
                     THEN print_receipt_begin(current_template, overlayRaises)
                     ELSE <<"no_template", "readline", time_dir, composed>>
            step ==
                IF current_is_custom /\ current_recipe # <<>>
                THEN IF tpl = NoPath THEN plain
                     ELSE IF composeRaises
                     THEN <<"compose_raised", "readline", time_dir, composed>>
                     ELSE <<IF usbRaises THEN "custom_print_raised" ELSE "custom_printed",
                            "readline",
                            compose_custom_receipt_save(time_dir, composed + 1),
                            composed + 1>>
                ELSE plain
        IN  /\ done' = [read EXCEPT !.print = step[1]]
            /\ mon_pc' = step[2]
            /\ time_dir' = step[3]
            /\ composed' = step[4]
    /\ UNCHANGED <<prod_vars, ser, serial_out, disk, http_vars, done_count, line, line_count,
                   notified, qr_vars,
                   pure_vars, queue_vars>>

\* Lines 186-199: one round of the loop of print_receipt; a failed attempt
\* sleeps and comes back here.
print_receipt_attempt ==
    /\ mon_pc = "print_retry"
    /\ \E usbRaises \in BOOLEAN :
        IF usbRaises
        THEN UNCHANGED <<mon_pc, done>>
        ELSE /\ mon_pc' = "readline"
             /\ done' = [done EXCEPT !.print = "template_printed"]
    /\ UNCHANGED <<prod_vars, ser, serial_out, disk, http_vars, done_count, line, line_count,
                   notified, qr_vars,
                   dir_vars, pure_vars, queue_vars>>

serial_done_worker ==
    \/ serial_done_notify
    \/ serial_done_callback
    \/ serial_done_print
    \/ print_receipt_attempt

\* A request arrives at POST /api/production.
http_receive(req) ==
    /\ http_pc = "idle"
    /\ http_pc' = "validate"
    /\ http_req' = req
    /\ http_pumps' = NoPumps
    /\ http_total' = 0
    /\ http_resp' = NoResponse
    /\ http_count' = http_count + 1
    /\ UNCHANGED <<prod_vars, ser, serial_out, disk, validated, beyond_http>>

\* A receipt composed on its own: overlay_now on a template.
overlay_now ==
    /\ time_dir' = overlay_now_save(time_dir, composed + 1)
    /\ composed' = composed + 1
    /\ UNCHANGED <<prod_vars, ser, serial_out, disk, http_vars, mon_vars, qr_vars,
                   pure_vars, queue_vars>>

\* A receipt composed on its own: compose_custom_receipt on a recipe of n
\* items; without a template for n it returns None and saves nothing.
compose_custom_receipt(n) ==
    /\ IF select_custom_template_by_count(ClampCount(n), disk) = NoPath
       THEN UNCHANGED dir_vars
       ELSE /\ time_dir' = compose_custom_receipt_save(time_dir, composed + 1)
            /\ composed' = composed + 1
    /\ UNCHANGED <<prod_vars, ser, serial_out, disk, http_vars, mon_vars, qr_vars,
                   pure_vars, queue_vars>>

\* ------------------------------------------------------------------------
\* The recipe table of a custom receipt

\* No table drawn yet: a row no recipe has.
NoRows == <<Entry("-", 0)>>

\* KeyBelow with ties going to the later item.
KeyBelowLaterFirst(items, i, j) ==
    \/ 0 - items[i].ml < 0 - items[j].ml
    \/ (items[i].ml = items[j].ml /\ i > j)

\* Line 211, the sort key (-float(items[i][1]), i): whether the key of
\* item i is below the key of item j.
KeyBelow(items, i, j) ==
    \/ 0 - items[i].ml < 0 - items[j].ml
    \/ (items[i].ml = items[j].ml /\ i < j)

RECURSIVE SortedIndices(_, _)
\* sorted(range(len(items)), key=...) restricted to the indices left: the
\* index of the least key first.
SortedIndices(items, left) ==
    IF left = {} THEN <<>>
    ELSE LET first == CHOOSE i \in left : \A j \in left \ {i} : KeyBelow(items, i, j)
         IN  <<first>> \o SortedIndices(items, left \ {first})

\* Lines 208-212
_stable_sort_by_amount(recipe) ==
    LET order == SortedIndices(recipe, 1..Len(recipe))
    IN  [k \in 1..Len(recipe) |-> recipe[order[k]]]

\* Lines 236-252 of draw_recipe_block: one row per item of the sorted
\* recipe, in that order.
draw_recipe_block ==
    /\ sort_out = NoRows
    /\ sort_out' = _stable_sort_by_amount(sort_in)
    /\ UNCHANGED <<prod_vars, ser, serial_out, disk, http_vars, mon_vars, qr_vars,
                   dir_vars, fmt_vars, sort_in, fit_in, fit_out, queue_vars>>

\* ------------------------------------------------------------------------
\* The title of a custom receipt

NAME_MAX_CHARS == 12

\* The arguments of draw_centered_fit_text, and how the font measures.
TitleArgs(text, max_width_px, fs_max, fs_min, margin, font) ==
    [text |-> text, max_width_px |-> max_width_px, fs_max |-> fs_max,
     fs_min |-> fs_min, margin |-> margin, font |-> font]

\* No call yet.
NoTitle == TitleArgs("", 0, 0, 0, 0, "-")

\* Lines 261-262: text[:NAME_MAX_CHARS]
Truncated(text) ==
    IF Len(text) > NAME_MAX_CHARS THEN SubSeq(text, 1, NAME_MAX_CHARS) ELSE text

\* draw.textbbox: the width of the text at a font size.  The TrueType font
\* gives each character `size` pixels here; the default font, loaded when
\* the font file is missing (line 266), ignores the size.
TextWidth(text, size, font) ==
    IF font = "truetype" THEN Len(text) * size ELSE Len(text) * 3

\* FitAllowed with the margin taken on one side only.
FitAllowedOneSide(max_width_px, margin) == max_width_px - margin

\* Line 272: allowed = max_width_px - 2*margin
FitAllowed(max_width_px, margin) == max_width_px - 2 * margin

RECURSIVE FitFrom(_, _, _)
\* Lines 265-279 from font size `size` on, then lines 281-290: the texts
\* drawn, each with its size.
FitFrom(args, text, size) ==
    IF size >= args.fs_min
    THEN IF TextWidth(text, size, args.font) <= FitAllowed(args.max_width_px, args.margin)
         THEN <<[text |-> text, size |-> size]>>
         ELSE FitFrom(args, text, size - 1)
    ELSE <<[text |-> text, size |-> args.fs_min]>>

\* Lines 254-290
draw_centered_fit_text(args) == FitFrom(args, Truncated(args.text), args.fs_max)

\* The title drawn for one call.
draw_title ==
    /\ fit_out = <<>>
    /\ fit_out' = draw_centered_fit_text(fit_in)
    /\ UNCHANGED <<prod_vars, ser, serial_out, disk, http_vars, mon_vars, qr_vars,
                   dir_vars, fmt_vars, sort_in, sort_out, fit_in, queue_vars>>

\* ------------------------------------------------------------------------
\* The wire formatter on its own

\* _fmt applied to one volume.
fmt_apply ==
    /\ fmt_out = ""
    /\ \E tieUp \in BOOLEAN : fmt_out' = _fmt(fmt_in, tieUp)
    /\ UNCHANGED <<prod_vars, ser, serial_out, disk, http_vars, mon_vars, qr_vars,
                   dir_vars, fmt_in, draw_vars, queue_vars>>

\* ------------------------------------------------------------------------
\* The queue-driven entry point (main.py, serial_bridge.py, server_client.py,
\* printer.py)

\* What main.py's tasks neither read nor write.
main2_vars == <<prod_vars, ser, serial_out, disk, http_vars, mon_vars, qr_vars, dir_vars,
                pure_vars>>

\* A recipe as the websocket delivers it: a name, the volumes and an index.
QueueRecipe(name, ml, idx) == [name |-> name, ml |-> ml, idx |-> idx]

\* main()'s local `recipe` before its first assignment.
NoRecipe == QueueRecipe("", <<>>, 0)

RECURSIVE JoinStr(_)
\* ",".join(map(str, ml)) for whole numbers.
JoinStr(ml) ==
    IF ml = <<>> THEN ""
    ELSE IF Len(ml) = 1 THEN Dec(ml[1])
    ELSE Dec(ml[1]) \o "," \o JoinStr(Tail(ml))

\* serial_bridge.py line 22: the line send_recipe writes.
Csv(rcp) == JoinStr(rcp.ml) \o "," \o Dec(rcp.idx) \o "\n"

\* serial_bridge.py lines 14-19: one round of SerialBridge.run in which
\* readline returns `raw`: the stripped line goes to ack_q if it is "OK",
\* to qr_q otherwise.
SerialBridge_run(raw) ==
    LET text == Strip(raw) IN
    /\ IF text = "OK"
       THEN /\ ACK_Q' = Append(ACK_Q, text)
            /\ QR_Q' = QR_Q
       ELSE /\ QR_Q' = Append(QR_Q, text)
            /\ ACK_Q' = ACK_Q
    /\ heard' = Append(heard, [text |-> text, cycles |-> cycles,
                               written |-> Len(writer_out),
                               waiting |-> (main_pc = "get_qr")])
    /\ UNCHANGED <<RECIPE_Q, main_pc, main_qr, main_recipe, main_ack, session_id,
                   writer_out, printed, cycles, main2_vars>>

\* server_client.py lines 20-26: with a session id set, each websocket
\* message is put on recipe_q.
ServerClient_run(rcp) ==
    /\ Truthy(session_id)
    /\ RECIPE_Q' = Append(RECIPE_Q, rcp)
    /\ UNCHANGED <<QR_Q, ACK_Q, main_pc, main_qr, main_recipe, main_ack, session_id,
                   writer_out, printed, cycles, heard, main2_vars>>

\* main.py line 22: qr = await QR_Q.get()
main_get_qr ==
    /\ main_pc = "get_qr"
    /\ QR_Q # <<>>
    /\ main_qr' = Head(QR_Q)
    /\ QR_Q' = Tail(QR_Q)
    /\ cycles' = cycles + 1
    /\ main_pc' = "post_scan"
    /\ UNCHANGED <<RECIPE_Q, ACK_Q, main_recipe, main_ack, session_id, writer_out,
                   printed, heard, main2_vars>>

\* main.py line 24 with server_client.py lines 11-16: the scan is posted and
\* the session id of the answer kept; an exception of the request ends
\* main().
main_post_scan ==
    /\ main_pc = "post_scan"
    /\ \E outcome \in {"ok", "raises"} :
        IF outcome = "ok"
        THEN /\ session_id' = "s1"
             /\ main_pc' = "get_recipe"
        ELSE /\ session_id' = session_id
             /\ main_pc' = "terminated"
    /\ UNCHANGED <<QR_Q, RECIPE_Q, ACK_Q, main_qr, main_recipe, main_ack, writer_out,
                   printed, cycles, heard, main2_vars>>

\* main.py line 27: recipe = await RECIPE_Q.get()
main_get_recipe ==
    /\ main_pc = "get_recipe"
    /\ RECIPE_Q # <<>>
    /\ main_recipe' = Head(RECIPE_Q)
    /\ RECIPE_Q' = Tail(RECIPE_Q)
    /\ main_pc' = "send_recipe"
    /\ UNCHANGED <<QR_Q, ACK_Q, main_qr, main_ack, session_id, writer_out, printed,
                   cycles, heard, main2_vars>>

\* main.py line 28 with serial_bridge.py lines 21-23: the recipe's line is
\* written.
main_send_recipe ==
    /\ main_pc = "send_recipe"
    /\ writer_out' = Append(writer_out, Csv(main_recipe))
    /\ main_pc' = "get_ack"
    /\ UNCHANGED <<QR_Q, RECIPE_Q, ACK_Q, main_qr, main_recipe, main_ack, session_id,
                   printed, cycles, heard, main2_vars>>

\* main.py line 30: ack = await ACK_Q.get()
main_get_ack ==
    /\ main_pc = "get_ack"
    /\ ACK_Q # <<>>
    /\ main_ack' = Head(ACK_Q)
    /\ ACK_Q' = Tail(ACK_Q)
    /\ main_pc' = "print"
    /\ UNCHANGED <<QR_Q, RECIPE_Q, main_qr, main_recipe, session_id, writer_out, printed,
                   cycles, heard, main2_vars>>

\* main.py lines 31-32 with printer.py lines 6-15: on "OK" the receipt of the
\* recipe is printed; an exception of the printer ends main().
main_print ==
    /\ main_pc = "print"
    /\ IF main_ack = "OK"
       THEN \E outcome \in {"printed", "raises"} :
               IF outcome = "printed"
               THEN /\ printed' = Append(printed, main_recipe)
                    /\ main_pc' = "get_qr"
               ELSE /\ printed' = printed
                    /\ main_pc' = "terminated"
       ELSE /\ printed' = printed
            /\ main_pc' = "get_qr"
    /\ UNCHANGED <<QR_Q, RECIPE_Q, ACK_Q, main_qr, main_recipe, main_ack, session_id,
                   writer_out, cycles, heard, main2_vars>>

\* main.py lines 21-32: the loop of main().
main ==
    \/ main_get_qr
    \/ main_post_scan
    \/ main_get_recipe
    \/ main_send_recipe
    \/ main_get_ack
    \/ main_print

\* ------------------------------------------------------------------------
\* Inputs

\* The largest volume, in ml, the formatter is applied to on its own.
MaxFmtMl == 2

\* The longest recipe enumerated in full.
MaxRecipeLen == 2

PumpNames ==
    <<"omija", "gamnamu", "eunhaengnamu", "gyeongpodae", "chasuguk",
      "taebaeksanmaek", "memilkkot", "gamjakkot", "anmokhaebyeon", "sonamu">>

\* Two ingredients of PUMP_MAP and two names that are none.
RecipeKeys == {"omija", "sonamu", "rose", "musk"}

Amounts ==
    {0, Ml(0, 5), Ml(2, 10), Ml(7, 0), Ml(7, 5500), Ml(12, 5000), Ml(13, 9996),
     Ml(14, 0), Ml(15, 1000), Ml(15, 1001), 0 - Ml(1, 0)}

Items == {Entry(k, a) : k \in RecipeKeys, a \in Amounts} \cup {BadEntry(k) : k \in RecipeKeys}

\* A dict has each key once.
DistinctKeys(recipe) ==
    \A i, j \in 1..Len(recipe) : recipe[i].k = recipe[j].k => i = j

ShortRecipes ==
    UNION {{r \in [1..n -> Items] : DistinctKeys(r)} : n \in 0..MaxRecipeLen}

\* n ingredients of PUMP_MAP, in pump order, ml each.
Long(n, ml) == [i \in 1..n |-> Entry(PumpNames[i], ml)]

LongRecipes ==
    {Long(7, Ml(2, 0)), Long(7, Ml(2, 1600)), Long(8, Ml(1, 8000)), Long(10, Ml(1, 5000)),
     [Long(8, Ml(1, 8000)) EXCEPT ![8] = Entry("rose", Ml(1, 8000))],
     [Long(8, Ml(1, 8000)) EXCEPT ![3] = Entry("eunhaengnamu", 0 - Ml(1, 0))],
     [Long(8, Ml(3, 0)) EXCEPT ![5] = BadEntry("chasuguk")],
     [Long(7, Ml(2, 0)) EXCEPT ![2] = BadEntry("gamnamu"),
                               ![1] = Entry("omija", 0 - Ml(1, 0))],
     [Long(7, Ml(2, 0)) EXCEPT ![6] = Entry("taebaeksanmaek", Ml(2, 2500)),
                               ![7] = Entry("memilkkot", Ml(2, 9990))]}

Recipes == ShortRecipes \cup LongRecipes

Request(name, recipe, callbackUrl, productionId) ==
    [name |-> name, recipe |-> recipe, callbackUrl |-> callbackUrl,
     productionId |-> productionId]

FullDisk ==
    {OrigPath(n) : n \in NAME_SET} \cup {CustomPath(n, ".jpg") : n \in 1..7}

\* The custom template for two ingredients is missing.
PartialDisk == FullDisk \ {CustomPath(2, ".jpg")}

\* Two orders that pass validation, and one request for each rejection.
OrderA == Request("omija", <<Entry("omija", Ml(14, 0))>>, "http://a/cb", "p1")

OrderB ==
    Request("mix", <<Entry("omija", Ml(2, 10)), Entry("sonamu", Ml(12, 5000))>>,
            "http://b/cb", "p2")

\* One request for each rejection: no item, an unknown ingredient, 8
\* items, a value that is no number, a negative value, a total of 7 ml.
BadRequests ==
    {Request("mix", r, "http://c/cb", "p3") :
        r \in {<<>>,
               <<Entry("rose", Ml(14, 0))>>,
               Long(8, Ml(1, 8000)),
               <<BadEntry("omija")>>,
               <<Entry("omija", 0 - Ml(1, 0))>>,
               <<Entry("omija", Ml(7, 0))>>}}

Orders == {OrderA, OrderB} \cup BadRequests

\* The raw lines the hardware sends: the completion signal and its ready
\* token.
HwLines == {"#DONE\r\n", "r\r\n"}

\* The requests received and completion signals handled in one run, taken
\* together; and the receipts composed in one run of the directory alone.
MaxEvents == 3

MaxComposed == 12

InitProductionState ==
    /\ current_template = NoPath
    /\ current_callback_url = NONE
    /\ current_production_id = NONE
    /\ current_perfume_name = NONE
    /\ current_is_custom = FALSE
    /\ current_recipe = <<>>

InitHttpIdle ==
    /\ http_pc = "idle"
    /\ http_req = NoRequest
    /\ http_pumps = NoPumps
    /\ http_total = 0
    /\ http_resp = NoResponse
    /\ validated = <<>>
    /\ http_count = 0

\* serial_worker returns at once when the port could not be opened.
InitMonitor ==
    /\ mon_pc = IF ser = "None" THEN "stopped" ELSE "readline"
    /\ done = NoDone
    /\ done_count = 0
    /\ line = ""
    /\ line_count = 0
    /\ notified = {}
    /\ now = QR_RET_SEC
    /\ last_qr_sent = [q \in {} |-> 0]
    /\ qr_posts = <<>>

InitDir ==
    /\ time_dir = {}
    /\ composed = 0

InitFmtIdle ==
    /\ fmt_in = 0
    /\ fmt_out = ""

InitTitleIdle ==
    /\ fit_in = NoTitle
    /\ fit_out = <<>>

InitDrawIdle ==
    /\ sort_in = <<>>
    /\ sort_out = NoRows
    /\ InitTitleIdle

\* main.py lines 6-8 and the start of main(): empty queues, nothing written.
InitQueueIdle ==
    /\ QR_Q = <<>>
    /\ RECIPE_Q = <<>>
    /\ ACK_Q = <<>>
    /\ main_pc = "get_qr"
    /\ main_qr = NONE
    /\ main_recipe = NoRecipe
    /\ main_ack = NONE
    /\ session_id = NONE
    /\ writer_out = <<>>
    /\ printed = <<>>
    /\ cycles = 0
    /\ heard = <<>>

\* ------------------------------------------------------------------------
\* Specifications

\* The request thread and the serial monitor thread, side by side.
Init ==
    /\ InitProductionState
    /\ ser \in {"None", "open"}
    /\ serial_out = <<>>
    /\ disk \in {FullDisk, PartialDisk}
    /\ InitHttpIdle
    /\ InitMonitor
    /\ InitDir
    /\ InitFmtIdle
    /\ InitQueueIdle
    /\ InitDrawIdle

Next ==
    \/ (http_count + line_count < MaxEvents /\ \E req \in Orders : http_receive(req))
    \/ production
    \/ (http_count + line_count < MaxEvents /\ \E raw \in HwLines : serial_worker_read(raw))
    \/ serial_done_worker

Spec == Init /\ [][Next]_vars

\* The names of the orders: a preset, the same preset typed with a space in
\* it, and a name that is no preset.
OrderNames == {"omija", "omi ja", "mix"}

\* One request, drawn from every recipe, through production().
InitValidate ==
    /\ InitProductionState
    /\ ser \in {"None", "open"}
    /\ serial_out = <<>>
    /\ disk = FullDisk
    /\ http_pc = "validate"
    /\ http_req \in {Request(n, r, "http://cb", "p1") : n \in OrderNames, r \in Recipes}
    /\ http_pumps = NoPumps
    /\ http_total = 0
    /\ http_resp = NoResponse
    /\ validated = <<>>
    /\ http_count = 1
    /\ InitMonitor
    /\ InitDir
    /\ InitFmtIdle
    /\ InitQueueIdle
    /\ InitDrawIdle

NextValidate == production

SpecValidate == InitValidate /\ [][NextValidate]_vars

\* The formatter on every volume up to MaxFmtMl.
InitFmt ==
    /\ InitProductionState
    /\ ser = "None"
    /\ serial_out = <<>>
    /\ disk = {}
    /\ InitHttpIdle
    /\ InitMonitor
    /\ InitDir
    /\ fmt_in \in 0..(MaxFmtMl * TicksPerMl)
    /\ fmt_out = ""
    /\ InitQueueIdle
    /\ InitDrawIdle

NextFmt == fmt_apply

SpecFmt == InitFmt /\ [][NextFmt]_vars

\* What ser.readline() returns to the monitor: the completion signal, bare
\* and padded, the ready token, two known locations, an unknown location,
\* a log line, a marked line, a line of "#", an empty line, and the empty
\* read of the timeout.
MonLines ==
    {"#DONE\r\n", " #DONE \n", "r\r\n", "gamnamu\r\n", "sonamu\r\n", "rose\r\n",
     "[log] gamnamu\r\n", ">gamnamu\r\n", "#DONE2\r\n", "\r\n", ""}

\* The lines the monitor reads in one run, and the seconds that pass.
MaxLines == 3

MaxTicks == 3

\* The monitor on the lines of the hardware, before any order: the
\* handler finds no template, no callback URL and no production id.
InitMonitorRun ==
    /\ InitProductionState
    /\ ser = "open"
    /\ serial_out = <<>>
    /\ disk = FullDisk
    /\ InitHttpIdle
    /\ InitMonitor
    /\ InitDir
    /\ InitFmtIdle
    /\ InitQueueIdle
    /\ InitDrawIdle

NextMonitor ==
    \/ (line_count < MaxLines /\ \E raw \in MonLines : serial_worker_read(raw))
    \/ handle_qr
    \/ serial_worker_except
    \/ serial_done_notify
    \/ serial_done_callback
    \/ serial_done_print
    \/ (mon_pc = "readline" /\ now < QR_RET_SEC + MaxTicks /\ clock_tick)

SpecMonitor == InitMonitorRun /\ [][NextMonitor]_vars

\* The lines read after an order: the completion signal and a location.
HandlerLines == {"#DONE\r\n", "gamnamu\r\n"}

MaxHandlerLines == 2

\* One order through production(), then the lines of the hardware.
InitHandler ==
    /\ InitProductionState
    /\ ser = "open"
    /\ serial_out = <<>>
    /\ disk \in {FullDisk, PartialDisk}
    /\ http_pc = "validate"
    /\ http_req \in {OrderA, OrderB}
    /\ http_pumps = NoPumps
    /\ http_total = 0
    /\ http_resp = NoResponse
    /\ validated = <<>>
    /\ http_count = 1
    /\ InitMonitor
    /\ InitDir
    /\ InitFmtIdle
    /\ InitQueueIdle
    /\ InitDrawIdle

NextHandler ==
    \/ production
    \/ (http_pc = "idle" /\ line_count < MaxHandlerLines
            /\ \E raw \in HandlerLines : serial_worker_read(raw))
    \/ (http_pc = "idle" /\ serial_worker_readline_raises)
    \/ serial_worker_except
    \/ handle_qr
    \/ serial_done_worker

SpecHandler == InitHandler /\ [][NextHandler]_vars

\* The longest recipe whose table is drawn on its own.
MaxTableLen == 3

\* Every order of MaxTableLen ingredients, each of 0, 5 or 10 ml.
TableRecipes ==
    LET keys == {PumpNames[i] : i \in 1..MaxTableLen}
        items == {Entry(k, a) : k \in keys, a \in {0, Ml(5, 0), Ml(10, 0)}}
    IN  UNION {{r \in [1..n -> items] : DistinctKeys(r)} : n \in 0..MaxTableLen}

\* The recipe table on every such recipe.
InitTable ==
    /\ InitProductionState
    /\ ser = "None"
    /\ serial_out = <<>>
    /\ disk = {}
    /\ InitHttpIdle
    /\ InitMonitor
    /\ InitDir
    /\ InitFmtIdle
    /\ InitQueueIdle
    /\ sort_in \in TableRecipes
    /\ sort_out = NoRows
    /\ InitTitleIdle

NextTable == draw_recipe_block

SpecTable == InitTable /\ [][NextTable]_vars

\* The largest font size tried.
MaxFontSize == 5

\* Titles of 0, 4, 12, 13 and 16 characters.
Titles == {"", "rose", "abcdefghijkl", "abcdefghijklm", "abcdefghijklmnop"}

\* The title on every such text, width budget, margin and range of sizes
\* (the empty range, fs_max below fs_min, included), with either font.
InitTitle ==
    /\ InitProductionState
    /\ ser = "None"
    /\ serial_out = <<>>
    /\ disk = {}
    /\ InitHttpIdle
    /\ InitMonitor
    /\ InitDir
    /\ InitFmtIdle
    /\ InitQueueIdle
    /\ sort_in = <<>>
    /\ sort_out = NoRows
    /\ fit_in \in {TitleArgs(t, w, hi, lo, m, f) :
                       t \in Titles, w \in {18, 40, 64}, hi \in 1..MaxFontSize,
                       lo \in 1..MaxFontSize, m \in {0, 2}, f \in {"truetype", "default"}}
    /\ fit_out = <<>>

NextTitle == draw_title

SpecTitle == InitTitle /\ [][NextTitle]_vars

\* Receipts composed one after another, in any mix.
InitRetention ==
    /\ InitProductionState
    /\ ser = "None"
    /\ serial_out = <<>>
    /\ disk \in {FullDisk, PartialDisk}
    /\ InitHttpIdle
    /\ InitMonitor
    /\ InitDir
    /\ InitFmtIdle
    /\ InitQueueIdle
    /\ InitDrawIdle

NextRetention ==
    \/ (composed < MaxComposed /\ overlay_now)
    \/ (composed < MaxComposed /\ \E n \in 1..2 : compose_custom_receipt(n))

SpecRetention == InitRetention /\ [][NextRetention]_vars

\* The valid orders received and the completion signals read in one run of
\* the two threads with the hardware answering.
MaxOrders == 2

MaxSignals == 2

\* Valid orders, each line written answered by at most one completion
\* signal, read at any moment after the write.
InitAnswered ==
    /\ InitProductionState
    /\ ser = "open"
    /\ serial_out = <<>>
    /\ disk = FullDisk
    /\ InitHttpIdle
    /\ InitMonitor
    /\ InitDir
    /\ InitFmtIdle
    /\ InitQueueIdle
    /\ InitDrawIdle

NextAnswered ==
    \/ (http_count < MaxOrders /\ \E req \in {OrderA, OrderB} : http_receive(req))
    \/ production
    \/ (line_count < MaxSignals /\ line_count < Len(serial_out)
            /\ serial_worker_read("#DONE\r\n"))
    \/ serial_done_worker

SpecAnswered == InitAnswered /\ [][NextAnswered]_vars

\* The lines the serial link delivers to SerialBridge: the acknowledgement,
\* a scan, and an acknowledgement in lower case.
BridgeLines == {"OK\r\n", "Q1\r\n", "ok\r\n"}

\* The recipes the websocket delivers.
RecipeX == QueueRecipe("x", <<3, 0>>, 1)

RecipeY == QueueRecipe("y", <<0, 12>>, 2)

\* The lines read from the serial link and the recipes delivered in one run.
MaxHeard == 3

MaxPut == 2

\* The recipes put on RECIPE_Q so far.
RecipesPut ==
    Len(RECIPE_Q) + Len(writer_out) + (IF main_pc = "send_recipe" THEN 1 ELSE 0)

\* main.py on its own: main(), SerialBridge.run and ServerClient.run.
InitQueue ==
    /\ InitProductionState
    /\ ser = "None"
    /\ serial_out = <<>>
    /\ disk = FullDisk
    /\ InitHttpIdle
    /\ InitMonitor
    /\ InitDir
    /\ InitFmtIdle
    /\ InitQueueIdle
    /\ InitDrawIdle

NextQueue ==
    \/ (Len(heard) < MaxHeard /\ \E raw \in BridgeLines : SerialBridge_run(raw))
    \/ (RecipesPut < MaxPut /\ \E rcp \in {RecipeX, RecipeY} : ServerClient_run(rcp))
    \/ main

SpecQueue == InitQueue /\ [][NextQueue]_vars

\* ------------------------------------------------------------------------
\* Properties of the validation and the encoding (SpecValidate)

\* What the rules say of a recipe, stated without the handler's operators.
RECURSIVE SumMl(_)
SumMl(recipe) == IF Len(recipe) = 0 THEN 0 ELSE Head(recipe).ml + SumMl(Tail(recipe))

\* The ten ingredient names.
Range10 == {PumpNames[i] : i \in 1..Len(PumpNames)}

Violates1(recipe) == recipe = <<>>

Violates2(recipe) == \E i \in 1..Len(recipe) : recipe[i].k \notin Range10

Violates3(recipe) == Len(recipe) < 1 \/ Len(recipe) > 7

Violates4(recipe) == \E i \in 1..Len(recipe) : ~recipe[i].num \/ recipe[i].ml < 0

Violates5(recipe) == SumMl(recipe) < 14 * TicksPerMl \/ SumMl(recipe) > Ml(15, 1000)

FirstViolated(recipe) ==
    IF Violates1(recipe) THEN "EmptyRecipe"
    ELSE IF Violates2(recipe) THEN "UnknownIngredient"
    ELSE IF Violates3(recipe) THEN "IngredientCountOutOfRange"
    ELSE IF Violates4(recipe) THEN "InvalidAmount"
    ELSE IF Violates5(recipe) THEN "TotalVolumeOutOfRange"
    ELSE ""

\* The request has been through the checks.
Validated == http_pc # "validate"

\* The request was rejected by a check.
Rejected == http_pc = "idle" /\ http_resp.status = 400

\* The request passed every check.
Accepted == Validated /\ ~Rejected

\* C4: the rejection returned is that of the first rule, in the order
\* empty / unknown ingredient / count / amount / total, that the recipe
\* violates; a recipe violating none is not rejected.
C4_FirstViolatedRuleRejects ==
    Validated =>
        /\ Rejected <=> FirstViolated(http_req.recipe) # ""
        /\ Rejected => http_resp.error = FirstViolated(http_req.recipe)

\* A recipe of 8 entries, one of them unknown, was rejected as UnknownIngredient.
C4_Witness ==
    /\ Rejected
    /\ Len(http_req.recipe) = 8
    /\ Violates2(http_req.recipe)
    /\ http_resp.error = "UnknownIngredient"

RECURSIVE Split(_, _)
Split(s, c) ==
    IF ~Contains(s, c) THEN <<s>>
    ELSE LET i == CHOOSE k \in 1..Len(s) :
                      SubSeq(s, k, k) = c /\ \A j \in 1..(k - 1) : SubSeq(s, j, j) # c
         IN  <<SubSeq(s, 1, i - 1)>> \o Split(SubSeq(s, i + 1, Len(s)), c)

\* The volume the recipe gives pump i.
VolumeOfPump(recipe, i) ==
    SumMl(SelectSeq(recipe, LAMBDA e : e.k \in Range10 /\ PUMP_MAP[e.k] = i))

\* C7: for an accepted recipe the pump vector has 10 non-negative entries,
\* each the volume the recipe gives that pump (zero where it gives none),
\* summing to the recipe's total; and a line written to the serial port is
\* the 10 formatted entries in pump order, joined by commas, then one
\* newline.
C7_PumpVectorAndLine ==
    Accepted =>
        /\ DOMAIN http_pumps = 0..9
        /\ \A i \in 0..9 : http_pumps[i] >= 0
        /\ \A i \in 0..9 : http_pumps[i] = VolumeOfPump(http_req.recipe, i)
        /\ SumPumps(http_pumps, 9) = SumMl(http_req.recipe)
        /\ http_total = SumMl(http_req.recipe)
        /\ \A n \in 1..Len(serial_out) :
            LET sent == serial_out[n]
                body == SubSeq(sent, 1, Len(sent) - 1)
                fields == Split(body, ",")
            IN  /\ Len(sent) > 0
                /\ SubSeq(sent, Len(sent), Len(sent)) = "\n"
                /\ ~Contains(body, "\n")
                /\ Len(fields) = 10
                /\ \A i \in 0..9 :
                    \E tieUp \in BOOLEAN : fields[i + 1] = _fmt(http_pumps[i], tieUp)

\* A recipe of two ingredients was accepted and its line written.
C7_Witness ==
    /\ Accepted
    /\ Len(http_req.recipe) = 2
    /\ http_pumps[0] > 0 /\ http_pumps[9] > 0
    /\ Len(serial_out) = 1

\* C8: a success response is returned only when the line was written to
\* the serial port.
C8_SuccessOnlyWhenWritten ==
    (http_pc = "idle" /\ http_resp.status = 200) => Len(serial_out) > 0

\* C10: a non-empty recipe with a key outside PUMP_MAP is rejected as
\* UnknownIngredient, the rejection lists each offending key, and neither
\* the pump vector nor a line is produced for it.
C10_UnknownIngredientRejected ==
    (~Violates1(http_req.recipe) /\ Violates2(http_req.recipe)) =>
        /\ http_pumps = NoPumps
        /\ serial_out = <<>>
        /\ Validated =>
            /\ Rejected
            /\ http_resp.error = "UnknownIngredient"
            /\ \A i \in 1..Len(http_req.recipe) :
                   http_req.recipe[i].k \notin Range10 =>
                       \E j \in 1..Len(http_resp.unknown_ingredients) :
                           http_resp.unknown_ingredients[j] = http_req.recipe[i].k
            /\ \A j \in 1..Len(http_resp.unknown_ingredients) :
                   http_resp.unknown_ingredients[j] \notin Range10
            /\ Len(http_resp.unknown_ingredients) =
                   Cardinality({i \in 1..Len(http_req.recipe) :
                                    http_req.recipe[i].k \notin Range10})

\* A recipe of two unknown keys was rejected, and both are listed.
C10_Witness ==
    /\ Rejected
    /\ Len(http_req.recipe) = 2
    /\ Len(http_resp.unknown_ingredients) = 2

\* The assignments of lines 574-582 are done for the request.
Stored == Accepted /\ http_pc \in {"send", "idle"}

\* C11: an order whose name, with its spaces removed, is a preset name gets
\* the preset template of the cleaned name (or none when the file is
\* missing), never a custom template, and is not flagged custom; any other
\* order is flagged custom.
C11_PresetByCleanedName ==
    Stored =>
        LET clean == Replace(http_req.name, " ") IN
        IF clean \in Range10
        THEN /\ current_template \in {OrigPath(clean), NoPath}
             /\ current_is_custom = FALSE
        ELSE current_is_custom = TRUE

\* What select_template does: the preset branch is taken on the name as
\* given, spaces included.
C11_Observed_PresetByRawName ==
    Stored =>
        IF http_req.name \in Range10
        THEN /\ current_template \in {OrigPath(Replace(http_req.name, " ")), NoPath}
             /\ current_is_custom = FALSE
        ELSE /\ current_template # NoPath => current_template.dir = "custom"
             /\ current_is_custom = TRUE

\* ------------------------------------------------------------------------
\* Properties of the wire formatter (SpecFmt)

IsDigit(c) == Contains("0123456789", c)

\* The text has one decimal point, digits before it and n digits after it.
HasDecimals(s, n) ==
    /\ Len(s) >= n + 2
    /\ SubSeq(s, Len(s) - n, Len(s) - n) = "."
    /\ \A i \in 1..Len(s) : i # Len(s) - n => IsDigit(SubSeq(s, i, i))

\* C6: a formatted volume has a decimal point followed by at least one
\* digit: one decimal when the volume is a whole number, else one or two
\* with no trailing zero; it never ends in the decimal point.
C6_FieldKeepsADecimalDigit ==
    fmt_out # "" =>
        /\ SubSeq(fmt_out, Len(fmt_out), Len(fmt_out)) # "."
        /\ IF fmt_in % TicksPerMl = 0
           THEN HasDecimals(fmt_out, 1)
           ELSE HasDecimals(fmt_out, 1) \/
                (HasDecimals(fmt_out, 2) /\ SubSeq(fmt_out, Len(fmt_out), Len(fmt_out)) # "0")

\* What the formatter does instead: a volume that is no whole number but
\* rounds to one at two decimals is rendered with a bare decimal point.
C6_Observed_BareDecimalPoint ==
    (fmt_out # "" /\ SubSeq(fmt_out, Len(fmt_out), Len(fmt_out)) = ".") =>
        /\ fmt_in % TicksPerMl # 0
        /\ \E tieUp \in BOOLEAN : RoundTo(fmt_in, TicksPerMl \div 100, tieUp) % 100 = 0

\* ------------------------------------------------------------------------
\* Properties of the two threads (Spec)

LastOrder == validated[Len(validated)]

\* The stem of the template select_template gives the order, or None.
StemFor(order) ==
    LET t == select_template(order.name, order.recipe, disk)
    IN  IF t = NoPath THEN NONE ELSE t.stem

\* C1: from the arrival of a request to its rejection with 400, Production
\* State stays as it was and nothing is written to the serial port.
C1_RejectionChangesNothing ==
    [][(http_pc' = "validate" \/ (http_pc = "validate" /\ Rejected'))
           => (prod_vars' = prod_vars /\ serial_out' = serial_out)]_vars

\* A request was rejected after the order p1 had been stored and sent: the
\* state still holds p1.
C1_Witness ==
    /\ Rejected
    /\ http_resp.error = "UnknownIngredient"
    /\ current_production_id = "p1"
    /\ current_recipe = OrderA.recipe
    /\ Len(serial_out) = 1

\* C2: a step of the completion handler taken while no request is in
\* progress reads the template, callback URL, production id, is-custom flag
\* and recipe of the order validated last.
C2_HandlerReadsLatestOrder ==
    [][(http_pc = "idle" /\ validated # <<>>) =>
           /\ (mon_pc = "done_notify" /\ mon_pc' # "done_notify")
                  => done'.fragrance_name = StemFor(LastOrder)
           /\ (mon_pc = "done_callback" /\ mon_pc' # "done_callback")
                  => /\ done'.cb_url = LastOrder.callbackUrl
                     /\ done'.cb_pid = LastOrder.productionId
           /\ (mon_pc = "done_print" /\ mon_pc' # "done_print")
                  => /\ done'.is_custom = (LastOrder.name \notin Range10)
                     /\ done'.recipe = LastOrder.recipe
                     /\ done'.template =
                            select_template(LastOrder.name, LastOrder.recipe, disk)]_vars

\* Orders p1 and p2 were validated before the first completion signal, and
\* its callback carried p2.
C2_Witness ==
    /\ validated = <<OrderA, OrderB>>
    /\ http_pc = "idle"
    /\ done_count = 1
    /\ done.callback = "ok"
    /\ done.cb_pid = "p2"
    /\ done.cb_url = "http://b/cb"

\* The handler is past its callback step.
PastCallback == mon_pc \in {"done_print", "print_retry", "readline"}

\* The handler is past its print step.
PastPrint == mon_pc \in {"print_retry", "readline"}

\* C3: in an invocation whose cartridge notification failed (an error
\* response or an exception) the callback step is still taken, and posts
\* whenever a callback URL and a production id are set; and the print step
\* is taken whatever the two calls did.
C3_FaultIsolation ==
    /\ (done.notify \in {"status_error", "raises"} /\ PastCallback)
           => /\ done.callback # "-"
              /\ (Truthy(done.cb_url) /\ Truthy(done.cb_pid)) => done.callback # "skipped"
    /\ (done.notify # "-" /\ PastPrint) => done.print # "-"

\* The notification raised, the callback was posted and the receipt printed.
C3_Witness ==
    /\ done.notify = "raises"
    /\ done.callback = "ok"
    /\ done.cb_pid = "p1"
    /\ done.print = "template_printed"

\* What the handler reads of Production State when it holds the order.
SlotOf(order) ==
    [fragrance_name |-> StemFor(order),
     cb_url |-> order.callbackUrl, cb_pid |-> order.productionId,
     is_custom |-> (order.name \notin Range10), recipe |-> order.recipe,
     name |-> order.name,
     template |-> select_template(order.name, order.recipe, disk)]

\* What it reads before any order.
EmptySlot ==
    [fragrance_name |-> NONE, cb_url |-> NONE, cb_pid |-> NONE,
     is_custom |-> FALSE, recipe |-> <<>>, name |-> NONE, template |-> NoPath]

\* Each step the invocation has taken read the slot's values.
ReadFrom(slot) ==
    /\ done.notify # "-" => done.fragrance_name = slot.fragrance_name
    /\ done.callback # "-" => (done.cb_url = slot.cb_url /\ done.cb_pid = slot.cb_pid)
    /\ done.print # "-" =>
           /\ done.is_custom = slot.is_custom
           /\ done.recipe = slot.recipe
           /\ done.name = slot.name
           /\ done.template = slot.template

\* C13: what one invocation of the completion handler has read belongs to
\* one validated order (or to the state before any order), whatever the
\* interleaving with the HTTP handler.
C13_ConsistentSnapshot ==
    done_count > 0 =>
        \/ ReadFrom(EmptySlot)
        \/ \E i \in 1..Len(validated) : ReadFrom(SlotOf(validated[i]))

\* The lines production() can write for the order.
LinesOf(order) ==
    {WireLine(Accumulate(order.recipe, 1, ZeroPumps, 0).pumps, tieUp) : tieUp \in BOOLEAN}

\* The validated orders whose request has been answered.
Answered == IF http_pc \in {"idle", "validate"} THEN Len(validated) ELSE Len(validated) - 1

RECURSIVE LastWith(_, _)
\* The last of the first n validated orders that can have written the
\* line, or 0.
LastWith(sent, n) ==
    IF n = 0 THEN 0
    ELSE IF sent \in LinesOf(validated[n]) THEN n
    ELSE LastWith(sent, n - 1)

\* The place among the validated orders of the one whose line was written
\* last: the last answered order with that line (two orders with the same
\* line hold the same data).
OwnerOfLastLine == LastWith(serial_out[Len(serial_out)], Answered)

\* What the handler reads when Production State holds that order or a
\* later one.
SlotsSince(owner) == {SlotOf(validated[j]) : j \in owner..Len(validated)}

\* C21: when production() writes an order's line, every field of Production
\* State already holds that order; and once a line has been written, a
\* step of the completion handler reads each field from the order of the
\* last line written or from a later order, never from an earlier order nor
\* from the initial empty state.
C21_AssignedBeforeWritten ==
    [][/\ serial_out' # serial_out =>
              /\ serial_out' = Append(serial_out, serial_out'[Len(serial_out')])
              /\ current_template = SlotOf(http_req).template
              /\ current_callback_url = http_req.callbackUrl
              /\ current_production_id = http_req.productionId
              /\ current_perfume_name = http_req.name
              /\ current_is_custom = SlotOf(http_req).is_custom
              /\ current_recipe = http_req.recipe
       /\ (serial_out # <<>> /\ mon_pc \in {"done_notify", "done_callback", "done_print"}
               /\ mon_pc' # mon_pc) =>
              LET slots == SlotsSince(OwnerOfLastLine) IN
              /\ OwnerOfLastLine >= 1
              /\ mon_pc = "done_notify"
                     => \E s \in slots : done'.fragrance_name = s.fragrance_name
              /\ mon_pc = "done_callback"
                     => /\ \E s \in slots : done'.cb_url = s.cb_url
                        /\ \E s \in slots : done'.cb_pid = s.cb_pid
              /\ mon_pc = "done_print"
                     => /\ \E s \in slots : done'.is_custom = s.is_custom
                        /\ \E s \in slots : done'.recipe = s.recipe
                        /\ \E s \in slots : done'.name = s.name
                        /\ \E s \in slots : done'.template = s.template]_vars

\* The lines of p1 and then of p2 were written while the first completion
\* signal was being handled: the notification carried p1's template and the
\* receipt p2's recipe.
C21_Witness ==
    /\ validated = <<OrderA, OrderB>>
    /\ Len(serial_out) = 2
    /\ done_count = 1
    /\ done.fragrance_name = "omija"
    /\ done.cb_pid = "p2"
    /\ done.print # "-"
    /\ done.recipe = OrderB.recipe

\* The request handled last was answered 500 and no request has come since.
WriteFailed == http_pc = "idle" /\ http_resp.status = 500

\* C22: when the write of a validated order raises, the request is answered
\* 500 with Production State left holding that order's template, callback
\* URL, production id, name and recipe; and a completion signal whose
\* callback step comes next posts a COMPLETED callback with the production
\* id and to the callback URL of the order reported as failed.
C22_FailedOrderStaysStored ==
    /\ [](WriteFailed =>
             /\ current_template = SlotOf(http_req).template
             /\ current_callback_url = http_req.callbackUrl
             /\ current_production_id = http_req.productionId
             /\ current_perfume_name = http_req.name
             /\ current_recipe = http_req.recipe)
    /\ [][(WriteFailed /\ mon_pc = "done_callback" /\ mon_pc' # "done_callback") =>
              /\ done'.callback \in {"ok", "status_error", "request_error", "raises"}
              /\ done'.cb_status = "COMPLETED"
              /\ done'.cb_pid = http_req.productionId
              /\ done'.cb_url = http_req.callbackUrl]_vars

\* The line of p1 was written, the write of p2 raised and was answered 500;
\* the completion signal handled then posted COMPLETED for p2.
C22_Witness ==
    /\ WriteFailed
    /\ validated = <<OrderA, OrderB>>
    /\ Len(serial_out) = 1
    /\ serial_out[1] \in LinesOf(OrderA)
    /\ LastOrder = http_req
    /\ done.callback = "ok"
    /\ done.cb_status = "COMPLETED"
    /\ done.cb_pid = "p2"
    /\ done.cb_url = "http://b/cb"

\* ------------------------------------------------------------------------
\* Properties of the serial monitor (SpecMonitor)

\* The line is the completion signal.
IsCompletionSignal(text) == text = "#DONE"

\* The line is a QR scan: not empty, no reserved token, and not begun by
\* one of the three markers.
IsQrScan(text) ==
    /\ Len(text) > 0
    /\ text # "r" /\ text # "#DONE"
    /\ \A c \in {"[", ">", "#"} : SubSeq(text, 1, 1) # c

\* C16: each line read invokes the completion handler once if it is
\* "#DONE" and not otherwise; it goes to handle_qr iff it is a QR scan; no
\* line is both; any other line changes nothing but the line read; and
\* nothing but a line read invokes the handler.
C16_LineClassification ==
    [][/\ line_count' = line_count + 1 =>
              /\ ~(IsCompletionSignal(line') /\ IsQrScan(line'))
              /\ mon_pc' = "done_notify" <=> IsCompletionSignal(line')
              /\ done_count' = done_count + (IF IsCompletionSignal(line') THEN 1 ELSE 0)
              /\ mon_pc' = "handle_qr" <=> IsQrScan(line')
              /\ (~IsCompletionSignal(line') /\ ~IsQrScan(line')) =>
                     /\ mon_pc' = "readline"
                     /\ UNCHANGED <<prod_vars, serial_out, done, notified, qr_vars, dir_vars>>
       /\ line_count' = line_count => done_count' = done_count
       /\ mon_pc # "handle_qr" => qr_posts' = qr_posts]_vars

\* Two completion signals, one of them padded, were handled, and the
\* ready token after them was dropped.
C16_Witness ==
    /\ line_count = 3
    /\ done_count = 2
    /\ line = "r"
    /\ mon_pc = "readline"
    /\ qr_posts = <<>>

\* The value was posted with a status below 400 less than QR_RET_SEC ago.
SentWithin(qr) ==
    \E i \in 1..Len(qr_posts) :
        /\ qr_posts[i].qr = qr
        /\ qr_posts[i].outcome = "ok"
        /\ now - qr_posts[i].at < 3

\* C17: a QR scan is posted iff it is a known location, matches the
\* pattern and was not sent within the last 3 seconds; the last-sent time
\* changes only with a post answered below 400; and two such posts of one
\* value are at least 3 seconds apart.
C17_QrDebounce ==
    /\ [][mon_pc = "handle_qr" =>
              LET forward == line \in VALID_QR /\ QR_PAT_match(line) /\ ~SentWithin(line)
              IN  /\ forward =>
                         /\ Len(qr_posts') = Len(qr_posts) + 1
                         /\ SubSeq(qr_posts', 1, Len(qr_posts)) = qr_posts
                         /\ qr_posts'[Len(qr_posts')].qr = line
                         /\ qr_posts'[Len(qr_posts')].at = now
                  /\ ~forward => qr_posts' = qr_posts
                  /\ last_qr_sent' # last_qr_sent =>
                         /\ Len(qr_posts') = Len(qr_posts) + 1
                         /\ qr_posts'[Len(qr_posts')].outcome = "ok"]_vars
    /\ [](\A i, j \in 1..Len(qr_posts) :
              (/\ i < j
               /\ qr_posts[i].qr = qr_posts[j].qr
               /\ qr_posts[i].outcome = "ok"
               /\ qr_posts[j].outcome = "ok") => qr_posts[j].at - qr_posts[i].at >= 3)

\* A location was posted and refused, posted again in the same second and
\* accepted, and posted a third time 3 seconds later.
C17_Witness ==
    /\ Len(qr_posts) = 3
    /\ \A i \in 1..3 : qr_posts[i].qr = "gamnamu"
    /\ qr_posts[1].outcome = "status_error"
    /\ qr_posts[2].outcome = "ok"
    /\ qr_posts[2].at = qr_posts[1].at
    /\ qr_posts[3].at = qr_posts[2].at + 3

\* ------------------------------------------------------------------------
\* Properties of the completion handler after an order (SpecHandler)

\* The positions of the monitor inside serial_done_worker.
HandlerPcs == {"done_notify", "done_callback", "done_print", "print_retry"}

\* C14: the monitor thread never ends: the handler hands back to the
\* reading of lines, an exception leaving handle_qr or readline is caught
\* by the loop, and the loop then reads on.
C14_MonitorReadsOn ==
    /\ [](mon_pc \in HandlerPcs \cup {"readline", "handle_qr", "except"})
    /\ [][/\ (mon_pc \in HandlerPcs => mon_pc' \in HandlerPcs \cup {"readline"})
          /\ (mon_pc = "handle_qr" => mon_pc' \in {"handle_qr", "readline", "except"})
          /\ (mon_pc = "except" => mon_pc' \in {"except", "readline"})]_vars

\* After a handler whose callback raised and whose receipt could not be
\* composed or printed, and after an exception caught by the loop, the
\* monitor read the next line, a location, and posted its lookup.
C14_Witness ==
    /\ done.callback = "raises"
    /\ done.print \in {"compose_raised", "custom_print_raised"}
    /\ line_count = 2
    /\ line = "gamnamu"
    /\ Len(qr_posts) = 1
    /\ qr_posts[1].outcome = "raises"
    /\ mon_pc = "readline"

\* C15: a receipt print that was attempted and has not succeeded is being
\* retried: the handler does not leave the print step with it.
C15_PrintRetriedUntilDone ==
    done.print \in {"template_pending", "custom_print_raised"} => mon_pc = "print_retry"

\* What holds: the print of a plain template is retried until it succeeds.
C15_Observed_PlainRetried ==
    done.print = "template_pending" => mon_pc = "print_retry"

\* The print step printed the plain template, or found none.
PlainTemplatePrinted ==
    IF done.template # NoPath
    THEN done.print \in {"template_pending", "template_printed", "overlay_failed"}
    ELSE done.print = "no_template"

\* C18: the print step of a custom order with a recipe prints the composed
\* receipt, or, the composition having failed, the plain template if
\* there is one; that of any other order prints the plain template if
\* there is one; without a template nothing is printed.
C18_PrintStepFallsBack ==
    done.print # "-" =>
        IF done.is_custom /\ done.recipe # <<>>
        THEN \/ done.print \in {"custom_printed", "custom_print_raised"}
             \/ PlainTemplatePrinted
        ELSE PlainTemplatePrinted

\* What holds: an error raised while composing ends the print step, with
\* nothing printed; only a missing custom template leads to the fallback.
C18_Observed_NoFallbackOnError ==
    done.print # "-" =>
        IF done.is_custom /\ done.recipe # <<>>
        THEN \/ done.print \in {"custom_printed", "custom_print_raised", "compose_raised"}
             \/ PlainTemplatePrinted
        ELSE PlainTemplatePrinted

\* C19: a production-done callback is posted for a production id at most
\* once: not for an id a callback was posted for before.
C19_NotifiedAtMostOnce ==
    [][(mon_pc = "done_callback" /\ done'.callback \notin {"-", "skipped"})
           => done'.cb_pid \notin notified]_vars

\* ------------------------------------------------------------------------
\* Properties of the queue-driven entry point (SpecQueue)

\* The scans SerialBridge.run has put on QR_Q, and the acknowledgements it
\* has put on ACK_Q, in the order of their arrival.
ScansHeard == SelectSeq(heard, LAMBDA h : h.text # "OK")

AcksHeard == SelectSeq(heard, LAMBDA h : h.text = "OK")

\* main() takes a scan, an acknowledgement.
TakesScan == main_pc = "get_qr" /\ main_pc' = "post_scan"

TakesAck == main_pc = "get_ack" /\ main_pc' = "print"

\* C23: the scan a round of main() takes was read while main() was waiting
\* for the scan of that round, the acknowledgement it takes was read after
\* the round's recipe was written, and a receipt is printed only for the
\* recipe written last and after an "OK" read since that write: no line
\* that was sitting in its queue from before is taken for a later round.
C23_NoStaleLineTaken ==
    [][/\ TakesScan =>
              /\ ScansHeard[cycles'].waiting
              /\ ScansHeard[cycles'].cycles = cycles
       /\ TakesAck => AcksHeard[Len(writer_out)].written = Len(writer_out)
       /\ printed' # printed =>
              /\ writer_out # <<>>
              /\ writer_out[Len(writer_out)] = Csv(main_recipe)
              /\ \E k \in 1..Len(heard) :
                     heard[k].text = "OK" /\ heard[k].written = Len(writer_out)]_vars

\* The steps of main() in the order of its loop.
MainOrder ==
    {<<"get_qr", "post_scan">>, <<"post_scan", "get_recipe">>, <<"post_scan", "terminated">>,
     <<"get_recipe", "send_recipe">>, <<"send_recipe", "get_ack">>, <<"get_ack", "print">>,
     <<"print", "get_qr">>, <<"print", "terminated">>}

\* What the code does keep: a round takes the head of QR_Q, then the head of
\* RECIPE_Q, writes its line, then takes the head of ACK_Q, one of each and
\* in that order, and the receipt printed is that of the recipe written
\* last, after an "OK" was taken.
C23_Observed_OneOfEachInOrder ==
    [][/\ main_pc' # main_pc => <<main_pc, main_pc'>> \in MainOrder
       /\ Len(QR_Q') < Len(QR_Q) => (TakesScan /\ QR_Q' = Tail(QR_Q) /\ main_qr' = Head(QR_Q))
       /\ Len(RECIPE_Q') < Len(RECIPE_Q) =>
              /\ main_pc = "get_recipe"
              /\ RECIPE_Q' = Tail(RECIPE_Q)
              /\ main_recipe' = Head(RECIPE_Q)
       /\ Len(ACK_Q') < Len(ACK_Q) => (TakesAck /\ ACK_Q' = Tail(ACK_Q) /\ main_ack' = Head(ACK_Q))
       /\ writer_out' # writer_out =>
              (main_pc = "send_recipe" /\ writer_out' = Append(writer_out, Csv(main_recipe)))
       /\ printed' # printed =>
              /\ main_pc = "print"
              /\ main_ack = "OK"
              /\ printed' = Append(printed, main_recipe)
              /\ writer_out[Len(writer_out)] = Csv(main_recipe)]_vars

\* ------------------------------------------------------------------------
\* Properties of the receipt directory (SpecRetention)

\* C9: the directory holds at most KEEP_IMAGES receipt images, and once
\* more than that many have been composed, the 10 composed last.
C9_BoundedRetention ==
    /\ Cardinality(time_dir) <= 10
    /\ composed > 10 => time_dir = {f \in time_dir : f.mtime > composed - 10}
    /\ composed > 10 => Cardinality(time_dir) = 10

\* What the directory does hold: at most KEEP_IMAGES images of suffix .png.
C9_Observed_OnlyPngPruned ==
    Cardinality({f \in time_dir : f.suffix = ".png"}) <= KEEP_IMAGES

\* ------------------------------------------------------------------------
\* Properties of the recipe table (SpecTable)

\* The place of the row's ingredient in the recipe.
PlaceIn(recipe, row) == CHOOSE i \in 1..Len(recipe) : recipe[i].k = row.k

\* C12: the rows are the recipe's entries, each once, by descending
\* amount, and rows of equal amount are in the order of the recipe.
C12_RowsByAmountStable ==
    sort_out # NoRows =>
        /\ Len(sort_out) = Len(sort_in)
        /\ \A i \in 1..Len(sort_in) : \E a \in 1..Len(sort_out) : sort_out[a] = sort_in[i]
        /\ \A a, b \in 1..Len(sort_out) :
               a < b =>
                   /\ sort_out[a].ml >= sort_out[b].ml
                   /\ sort_out[a].ml = sort_out[b].ml
                          => PlaceIn(sort_in, sort_out[a]) < PlaceIn(sort_in, sort_out[b])

\* A = 5, B = 10, C = 5 gave the rows B, A, C.
C12_Witness ==
    /\ sort_in = <<Entry(PumpNames[1], Ml(5, 0)), Entry(PumpNames[2], Ml(10, 0)),
                   Entry(PumpNames[3], Ml(5, 0))>>
    /\ sort_out = <<Entry(PumpNames[2], Ml(10, 0)), Entry(PumpNames[1], Ml(5, 0)),
                    Entry(PumpNames[3], Ml(5, 0))>>

\* ------------------------------------------------------------------------
\* Properties of the title (SpecTitle)

\* The title as it is drawn: its first 12 characters.
TitleText == SubSeq(fit_in.text, 1, IF Len(fit_in.text) < 12 THEN Len(fit_in.text) ELSE 12)

\* The title fits at the size: its width is within the budget less the
\* margin on both sides.
FitsAt(size) ==
    TextWidth(TitleText, size, fit_in.font) <= fit_in.max_width_px - 2 * fit_in.margin

\* C20: the title is drawn once, cut to 12 characters, at the largest size
\* of fs_min..fs_max at which it fits, or at fs_min if it fits at none.
C20_TitleFit ==
    fit_out # <<>> =>
        /\ Len(fit_out) = 1
        /\ fit_out[1].text = TitleText
        /\ LET fitting == {z \in fit_in.fs_min..fit_in.fs_max : FitsAt(z)}
           IN  IF fitting = {}
               THEN fit_out[1].size = fit_in.fs_min
               ELSE /\ fit_out[1].size \in fitting
                    /\ \A z \in fitting : z <= fit_out[1].size

\* A title of 13 characters was cut to 12 and drawn at size 5, where its 60
\* pixels are exactly the budget of 64 less twice the margin of 2.
C20_Witness ==
    /\ fit_in.text = "abcdefghijklm"
    /\ fit_in.font = "truetype"
    /\ fit_in.max_width_px = 64 /\ fit_in.margin = 2
    /\ fit_in.fs_max = 5 /\ fit_in.fs_min = 2
    /\ fit_out = <<[text |-> "abcdefghijkl", size |-> 5]>>

====
